---------------------------- MODULE Spec2Model ----------------------------
(***************************************************************************)
(* A model of the Uranus DEX on-chain API client (src/onchain-api):        *)
(* fee and position-size arithmetic, instruction construction for opening  *)
(* and closing a position, the account query layer and the activity        *)
(* aggregator, each translated from index.js and schema.js.                *)
(*                                                                         *)
(* Strings are sequences of Unicode code points, byte strings sequences of *)
(* 0..255, and BN / BigInt / JS integers are sign-magnitude numbers held   *)
(* as little-endian words (as bn.js holds them), because the amounts and   *)
(* the millisecond clock exceed the range of TLC's integers.               *)
(***************************************************************************)
EXTENDS Integers, Sequences, FiniteSets, TLC

NULL == "null"

\* null where the value would be a record (an address, an instruction, a
\* returned object)
NONE == [null |-> TRUE]

Min(a, b) == IF a < b THEN a ELSE b

Rep(x, n) == [i \in 1..n |-> x]

RECURSIVE Flatten(_)
Flatten(ss) == IF ss = <<>> THEN <<>> ELSE Head(ss) \o Flatten(Tail(ss))

(***************************************************************************)
(* bn.js: new BN(n), add, sub, mul, div, toArray("le", n), toNumber.       *)
(* A number is [negative |-> 0 or 1, words |-> little-endian words], kept  *)
(* stripped (no leading zero word; zero is <<0>> and never negative).      *)
(* bn.js uses 26-bit words; the model uses 15-bit words so that a product  *)
(* of two words stays inside TLC's 32-bit integers.                        *)
(***************************************************************************)
WORD == 32768

RECURSIVE strip(_)
strip(w) ==
  IF Len(w) > 1 /\ w[Len(w)] = 0 THEN strip(SubSeq(w, 1, Len(w) - 1)) ELSE w

normSign(n) ==
  LET w == strip(n.words)
  IN  [negative |-> IF w = <<0>> THEN 0 ELSE n.negative, words |-> w]

RECURSIVE natWords(_)
natWords(n) == IF n < WORD THEN <<n>> ELSE <<n % WORD>> \o natWords(n \div WORD)

\* new BN(number) for a JS integer the model can write as a TLC integer
BN(n) ==
  IF n < 0 THEN [negative |-> 1, words |-> natWords(-n)]
  ELSE [negative |-> 0, words |-> natWords(n)]

isZero(a) == a.words = <<0>>

RECURSIVE ucmpFrom(_, _, _)
ucmpFrom(a, b, i) ==
  IF i = 0 THEN 0
  ELSE IF a[i] > b[i] THEN 1
  ELSE IF a[i] < b[i] THEN -1
  ELSE ucmpFrom(a, b, i - 1)

\* BN.ucmp on magnitudes
ucmp(a, b) ==
  IF Len(a) > Len(b) THEN 1
  ELSE IF Len(a) < Len(b) THEN -1
  ELSE ucmpFrom(a, b, Len(a))

RECURSIVE uaddFrom(_, _, _, _)
uaddFrom(a, b, i, carry) ==
  IF i > Len(a) /\ i > Len(b)
  THEN (IF carry = 0 THEN <<>> ELSE <<carry>>)
  ELSE LET x == IF i <= Len(a) THEN a[i] ELSE 0
           y == IF i <= Len(b) THEN b[i] ELSE 0
           s == x + y + carry
       IN  <<s % WORD>> \o uaddFrom(a, b, i + 1, s \div WORD)

uadd(a, b) == strip(uaddFrom(a, b, 1, 0))

RECURSIVE usubFrom(_, _, _, _)
usubFrom(a, b, i, borrow) ==
  IF i > Len(a) THEN <<>>
  ELSE LET y == IF i <= Len(b) THEN b[i] ELSE 0
           d == a[i] - y - borrow
       IN  IF d < 0 THEN <<d + WORD>> \o usubFrom(a, b, i + 1, 1)
           ELSE <<d>> \o usubFrom(a, b, i + 1, 0)

\* magnitude a - magnitude b, for a >= b
usub(a, b) == strip(usubFrom(a, b, 1, 0))

neg(a) == normSign([negative |-> 1 - a.negative, words |-> a.words])

\* BN.prototype.add
add(a, b) ==
  IF a.negative = b.negative
  THEN normSign([negative |-> a.negative, words |-> uadd(a.words, b.words)])
  ELSE IF ucmp(a.words, b.words) >= 0
  THEN normSign([negative |-> a.negative, words |-> usub(a.words, b.words)])
  ELSE normSign([negative |-> b.negative, words |-> usub(b.words, a.words)])

\* BN.prototype.sub
sub(a, b) == add(a, neg(b))

RECURSIVE umulWord(_, _, _, _)
umulWord(a, m, i, carry) ==
  IF i > Len(a) THEN (IF carry = 0 THEN <<>> ELSE <<carry>>)
  ELSE LET p == a[i] * m + carry
       IN  <<p % WORD>> \o umulWord(a, m, i + 1, p \div WORD)

RECURSIVE umulFrom(_, _, _)
umulFrom(a, b, j) ==
  IF j > Len(b) THEN <<0>>
  ELSE uadd(Rep(0, j - 1) \o umulWord(a, b[j], 1, 0), umulFrom(a, b, j + 1))

\* BN.prototype.mul
mul(a, b) ==
  normSign([negative |-> IF a.negative = b.negative THEN 0 ELSE 1,
            words |-> strip(umulFrom(a.words, b.words, 1))])

RECURSIVE udivnFrom(_, _, _, _)
udivnFrom(a, d, i, rem) ==
  IF i = 0 THEN <<>>
  ELSE LET cur == rem * WORD + a[i]
       IN  udivnFrom(a, d, i - 1, cur % d) \o <<cur \div d>>

\* BN.prototype.divn on magnitudes: a single-word divisor
udivn(a, d) == strip(udivnFrom(a, d, Len(a), 0))

RECURSIVE umodnFrom(_, _, _, _)
umodnFrom(a, d, i, rem) ==
  IF i = 0 THEN rem ELSE umodnFrom(a, d, i - 1, (rem * WORD + a[i]) % d)

umodn(a, d) == umodnFrom(a, d, Len(a), 0)

\* BN.prototype.div for a single-word divisor (divmod's divn path): the
\* quotient is truncated towards zero and takes the sign of the operands
div(a, b) ==
  normSign([negative |-> IF a.negative = b.negative THEN 0 ELSE 1,
            words |-> udivn(a.words, b.words[1])])

RECURSIVE ubytesLE(_, _)
ubytesLE(w, n) ==
  IF n = 0 THEN <<>> ELSE <<umodn(w, 256)>> \o ubytesLE(udivn(w, 256), n - 1)

\* BN.prototype.toArray("le", n) of a non-negative number that fits n bytes
toArrayLE(a, n) == ubytesLE(a.words, n)

RECURSIVE fromBytesLE(_)
fromBytesLE(bs) ==
  IF bs = <<>> THEN BN(0)
  ELSE add(BN(Head(bs)), mul(BN(256), fromBytesLE(Tail(bs))))

\* value of a number known to fit a TLC integer
toInt(a) ==
  LET RECURSIVE val(_)
      val(i) == IF i > Len(a.words) THEN 0 ELSE a.words[i] + WORD * val(i + 1)
  IN  IF a.negative = 1 THEN -val(1) ELSE val(1)

lt(a, b) == sub(a, b).negative = 1

(***************************************************************************)
(* Strings.  TextEncoder.encode, TextDecoder.decode (UTF-8, replacement    *)
(* character on malformed input, a leading byte order mark removed),       *)
(* String.prototype.toLowerCase / includes / replace(/\0/g, '').           *)
(***************************************************************************)
REPLACEMENT == 65533

encodeCodePoint(c) ==
  IF c < 128 THEN <<c>>
  ELSE IF c < 2048 THEN <<192 + (c \div 64), 128 + (c % 64)>>
  ELSE IF c >= 55296 /\ c <= 57343 THEN <<239, 191, 189>>
  ELSE IF c < 65536
  THEN <<224 + (c \div 4096), 128 + ((c \div 64) % 64), 128 + (c % 64)>>
  ELSE <<240 + (c \div 262144), 128 + ((c \div 4096) % 64),
         128 + ((c \div 64) % 64), 128 + (c % 64)>>

RECURSIVE TextEncoder_encode(_)
TextEncoder_encode(str) ==
  IF str = <<>> THEN <<>>
  ELSE encodeCodePoint(Head(str)) \o TextEncoder_encode(Tail(str))

\* how many of the `need` continuation bytes after position i are well formed
RECURSIVE continuation(_, _, _, _, _)
continuation(b, i, need, lo, hi) ==
  IF need = 0 \/ i > Len(b) \/ b[i] < lo \/ b[i] > hi THEN 0
  ELSE 1 + continuation(b, i + 1, need - 1, 128, 191)

RECURSIVE utf8DecodeFrom(_, _)
utf8DecodeFrom(b, i) ==
  IF i > Len(b) THEN <<>>
  ELSE LET c == b[i]
           need == IF c >= 194 /\ c <= 223 THEN 1
                   ELSE IF c >= 224 /\ c <= 239 THEN 2
                   ELSE IF c >= 240 /\ c <= 244 THEN 3
                   ELSE 0
           lo == IF c = 224 THEN 160 ELSE IF c = 240 THEN 144 ELSE 128
           hi == IF c = 237 THEN 159 ELSE IF c = 244 THEN 143 ELSE 191
           got == continuation(b, i + 1, need, lo, hi)
           lead == IF need = 1 THEN c - 192
                   ELSE IF need = 2 THEN c - 224 ELSE c - 240
           RECURSIVE value(_, _)
           value(acc, k) ==
             IF k > need THEN acc ELSE value(acc * 64 + (b[i + k] - 128), k + 1)
       IN  IF c < 128 THEN <<c>> \o utf8DecodeFrom(b, i + 1)
           ELSE IF need = 0 THEN <<REPLACEMENT>> \o utf8DecodeFrom(b, i + 1)
           ELSE IF got = need
           THEN <<value(lead, 1)>> \o utf8DecodeFrom(b, i + 1 + need)
           ELSE <<REPLACEMENT>> \o utf8DecodeFrom(b, i + 1 + got)

\* new TextDecoder().decode(bytes): ignoreBOM is false, fatal is false
TextDecoder_decode(b) ==
  IF Len(b) >= 3 /\ SubSeq(b, 1, 3) = <<239, 187, 191>>
  THEN utf8DecodeFrom(b, 4)
  ELSE utf8DecodeFrom(b, 1)

IsNotNul(c) == c # 0

\* str.replace(/\0/g, '')
replaceNul(str) == SelectSeq(str, IsNotNul)

\* toLowerCase on the code points the model's strings are made of: ASCII and
\* Latin-1 capitals map to their small letters, everything else to itself
lowerCodePoint(c) ==
  IF c >= 65 /\ c <= 90 THEN c + 32
  ELSE IF c >= 192 /\ c <= 222 /\ c # 215 THEN c + 32
  ELSE c

toLowerCase(str) == [i \in 1..Len(str) |-> lowerCodePoint(str[i])]

\* String.prototype.includes
includes(str, t) ==
  \E i \in 0..(Len(str) - Len(t)) : SubSeq(str, i + 1, i + Len(t)) = t

(***************************************************************************)
(* stringToFixedArray (index.js) and the field decode of                   *)
(* deserializePositionAccount.                                             *)
(***************************************************************************)
SYMBOL_LEN == 32

stringToFixedArray(str, length) ==
  LET bytes == TextEncoder_encode(str)
      copyLength == Min(Len(bytes), length - 1)
  IN  [i \in 1..length |-> IF i <= copyLength THEN bytes[i] ELSE 0]

\* line 228 without the replace of the NUL characters
decodeMarketSymbol_keepNul(arr) == TextDecoder_decode(arr)

\* market_symbol of deserializePositionAccount
decodeMarketSymbol(arr) == replaceNul(TextDecoder_decode(arr))

(***************************************************************************)
(* Public keys.  A key is a name; toBytes gives its 32 bytes.              *)
(***************************************************************************)
PROGRAM_ID == "URAa3qGD1qVKKqyQrF8iBVZRTwa4Q8RkMd6Gx7u2KL1"
DEX_PUBKEY == "URAbknhQPhFiY92S5iM9nhzoZC5Vkch7S5VERa4PmuV"
DEX_FEES_PUBKEY == "URAfeAaGMoavvTe8vqPwMX6cUvTjq8WMG5c9nFo7Q8j"
METADATA_PROGRAM == "metaqbxxUerdq28cj1RbAWkYQm3ybzjb6a8bt518x1s"
SystemProgram_programId == "11111111111111111111111111111111"

Owners == {"owner1", "owner2"}
Mints == {"mintA", "mintB"}

keyByte(k) ==
  CASE k = "owner1" -> 11
    [] k = "owner2" -> 12
    [] k = "mintA" -> 21
    [] k = "mintB" -> 22
    [] k = METADATA_PROGRAM -> 31
    [] OTHER -> 1

\* PublicKey.prototype.toBytes
toBytes(k) == Rep(keyByte(k), 32)

\* PublicKey.findProgramAddressSync(seeds, programId)[0]: the address is a
\* hash of the concatenated seeds and the program id, so it is modelled by
\* what is hashed (two derivations agree exactly when their preimages do)
findProgramAddressSync(seeds, programId) ==
  [program |-> programId, preimage |-> Flatten(seeds)]

STR_metadata == <<109, 101, 116, 97, 100, 97, 116, 97>>
STR_uranus_market == <<117, 114, 97, 110, 117, 115, 95, 109, 97, 114, 107, 101, 116>>
STR_v1 == <<118, 49>>
STR_uranus_position ==
  <<117, 114, 97, 110, 117, 115, 95, 112, 111, 115, 105, 116, 105, 111, 110>>
STR_long == <<108, 111, 110, 103>>
STR_short == <<115, 104, 111, 114, 116>>

getMetadataPDA(mint) ==
  findProgramAddressSync(
    <<TextEncoder_encode(STR_metadata), toBytes(METADATA_PROGRAM), toBytes(mint)>>,
    METADATA_PROGRAM)

getMarketAccount(mint) ==
  findProgramAddressSync(
    <<TextEncoder_encode(STR_uranus_market), toBytes(mint), TextEncoder_encode(STR_v1)>>,
    PROGRAM_ID)

\* the position address of createUranusPositionTransaction (lines 121-128)
openPositionPda(owner, positionNonce) ==
  findProgramAddressSync(
    <<TextEncoder_encode(STR_uranus_position), toBytes(owner),
      toArrayLE(positionNonce, 8)>>,
    PROGRAM_ID)

\* lines 184-191 with the owner seed put before the tag
closePositionPda_ownerFirst(owner, positionNonceBN) ==
  findProgramAddressSync(
    <<toBytes(owner), TextEncoder_encode(STR_uranus_position),
      toArrayLE(positionNonceBN, 8)>>,
    PROGRAM_ID)

\* the position address of closeUranusPosition (lines 184-191)
closePositionPda(owner, positionNonceBN) ==
  findProgramAddressSync(
    <<TextEncoder_encode(STR_uranus_position), toBytes(owner),
      toArrayLE(positionNonceBN, 8)>>,
    PROGRAM_ID)

(***************************************************************************)
(* borsh serialize for the schemas of schema.js.                           *)
(***************************************************************************)
PositionAccountData_size == 32 + 32 + 32 + 8 + 8 + 8 + 8 + 1 + 1 + 8 + 8 + 1

RECURSIVE negateBytes(_, _)
negateBytes(bs, carry) ==
  IF bs = <<>> THEN <<>>
  ELSE LET x == (255 - Head(bs)) + carry
       IN  <<x % 256>> \o negateBytes(Tail(bs), x \div 256)

\* 'u64': BigInt(value) written as its low 8 bytes, little-endian (two's
\* complement when value is negative)
encodeU64(v) ==
  IF v.negative = 1
  THEN negateBytes(ubytesLE(v.words, 8), 1)
  ELSE ubytesLE(v.words, 8)

\* 'u8' and 'i8': DataView.setUint8 / setInt8
encodeU8(n) == <<n % 256>>
encodeI8(n) == <<n % 256>>
encodeBool(b) == IF b THEN <<1>> ELSE <<0>>

serializeInitializePositionData(d) ==
  d.market_mint \o d.market_symbol \o encodeU64(d.paid_amount)
    \o encodeU64(d.position_size) \o encodeU8(d.leverage)
    \o encodeU64(d.position_nonce) \o encodeI8(d.direction)

serializeClosePositionData(d) ==
  encodeBool(d.close_position) \o encodeU64(d.position_nonce)

(***************************************************************************)
(* The transport (connection) and the clock, as far as the client sees     *)
(* them.                                                                   *)
(***************************************************************************)
\* connection.getMinimumBalanceForRentExemption(dataLength): the ledger's
\* rent-exempt minimum, two years of rent on the data plus 128 bytes of
\* account overhead, at the ledger's current rate per byte-year
getMinimumBalanceForRentExemption(dataLength, lamportsPerByteYear) ==
  (128 + dataLength) * lamportsPerByteYear * 2

LamportsPerByteYear == {3480, 6960}

\* Date.now(): milliseconds, two consecutive readings
Clock ==
  {add(mul(BN(1762387), BN(1000000)), BN(200000)),
   add(mul(BN(1762387), BN(1000000)), BN(200001))}

Blockhashes == {"blockhash1"}

(***************************************************************************)
(* calculateFees and the inputs of createUranusPositionTransaction.        *)
(* solAmount is held in lamports (solAmount * LAMPORTS_PER_SOL).           *)
(***************************************************************************)
\* calculateFees with the base fee's 200 read as a percentage instead of
\* basis points
calculateFees_percent(lamports, leverage, rent) ==
  LET basePaidAmount == lamports
      baseFee == div(mul(basePaidAmount, BN(200)), BN(100))
      leverageFee ==
        div(mul(mul(basePaidAmount, BN(10)), BN(leverage)), BN(10000))
      percentageFee == add(baseFee, leverageFee)
      accountFee == BN(rent)
  IN  [basePaidAmount |-> basePaidAmount, baseFee |-> baseFee,
       leverageFee |-> leverageFee, percentageFee |-> percentageFee,
       accountFee |-> accountFee]

calculateFees(lamports, leverage, rent) ==
  LET basePaidAmount == lamports
      baseFee == div(mul(basePaidAmount, BN(200)), BN(10000))
      leverageFee ==
        div(mul(mul(basePaidAmount, BN(10)), BN(leverage)), BN(10000))
      percentageFee == add(baseFee, leverageFee)
      accountFee == BN(rent)
  IN  [basePaidAmount |-> basePaidAmount, baseFee |-> baseFee,
       leverageFee |-> leverageFee, percentageFee |-> percentageFee,
       accountFee |-> accountFee]

\* line 118 with the fees added to the principal, as line 117 does
positionSizeOf_added(fees, leverage) ==
  mul(add(add(fees.basePaidAmount, fees.percentageFee), fees.accountFee),
      BN(leverage))

\* line 118, step by step: basePaidAmount.sub(percentageFee)
afterFeesOf(fees) == sub(fees.basePaidAmount, fees.percentageFee)

\* .sub(accountFee)
afterRentOf(fees) == sub(afterFeesOf(fees), fees.accountFee)

\* .mul(new BN(leverage))
positionSizeOf(fees, leverage) == mul(afterRentOf(fees), BN(leverage))

\* line 117
paidAmountOf(fees) ==
  add(add(fees.basePaidAmount, fees.percentageFee), fees.accountFee)

\* line 139
directionOf(direction) == IF toLowerCase(direction) = STR_long THEN 1 ELSE -1

SolAmounts ==
  {BN(0), BN(1), BN(9999), BN(10000000), BN(10000049), BN(1000000000)}
Leverages == {-1, 0, 1, 2, 3, 4, 5, 6}
Directions ==
  {<<>>, STR_long, <<76, 79, 78, 71>>, STR_short, <<83, 104, 111, 114, 116>>,
   <<117, 112>>}
MetadataSymbols == {<<83, 79, 76>>, <<83, 79, 76, 0, 0>>}

(***************************************************************************)
(* State.  The library keeps no state between calls; the state is that of  *)
(* the call in progress plus what the caller holds from the last position  *)
(* it opened.                                                              *)
(*   op, args  the exported function being run and its arguments           *)
(*   pc        "idle", the await the call is suspended at, or "done"       *)
(*   loc       the call's local variables                                  *)
(*   net       the requests issued to the transport so far, in order       *)
(*   inflight  the requests issued and not yet resolved                    *)
(*   ret       the call's outcome: returned value or thrown error          *)
(*   held      what the caller holds of the position it opened last: the   *)
(*             owner, positionNonce and positionPda returned by            *)
(*             createUranusPositionTransaction (dropped when the caller    *)
(*             opens another)                                              *)
(***************************************************************************)
VARIABLES op, args, pc, loc, net, inflight, ret, held

vars == <<op, args, pc, loc, net, inflight, ret, held>>

NoRet == [kind |-> "none"]
Throw(msg) == [kind |-> "error", message |-> msg]

Init ==
  /\ op = NULL
  /\ args = <<>>
  /\ pc = "idle"
  /\ loc = <<>>
  /\ net = <<>>
  /\ inflight = 0
  /\ ret = NoRet
  /\ held = NONE

Request(method, arg) == [method |-> method, arg |-> arg]

\* the caller takes the outcome; the next call starts from a clean frame
Return ==
  /\ pc = "done"
  /\ pc' = "idle"
  /\ op' = NULL
  /\ args' = <<>>
  /\ loc' = <<>>
  /\ net' = <<>>
  /\ inflight' = 0
  /\ ret' = NoRet
  /\ held' = IF op = "createUranusPositionTransaction" /\ ret.kind = "ok"
             THEN [owner |-> args.owner, positionNonce |-> ret.positionNonce,
                   positionPda |-> ret.positionPda]
             ELSE held

(***************************************************************************)
(* createUranusPositionTransaction (index.js 105-174)                      *)
(***************************************************************************)
\* lines 106-108
createMissing(a) ==
  \/ a.owner = NULL
  \/ a.mint = NULL
  \/ isZero(a.solAmount)
  \/ a.leverage = 0
  \/ a.direction = <<>>

\* lines 105-111: validation, then getMetadata's request
createUranusPositionTransaction ==
  /\ pc = "idle"
  /\ \E owner \in Owners \cup {NULL}, mint \in {"mintA", NULL},
        solAmount \in SolAmounts, leverage \in Leverages,
        direction \in Directions :
       LET a == [owner |-> owner, mint |-> mint, solAmount |-> solAmount,
                 leverage |-> leverage, direction |-> direction]
       IN  /\ op' = "createUranusPositionTransaction"
           /\ args' = a
           /\ loc' = [instruction |-> NONE]
           /\ IF createMissing(a)
              THEN /\ pc' = "done"
                   /\ ret' = Throw("Missing required parameters")
                   /\ UNCHANGED <<net, inflight>>
              ELSE /\ pc' = "awaitMetadata"
                   /\ net' = Append(net, Request("getParsedAccountInfo",
                                                 getMetadataPDA(mint)))
                   /\ inflight' = inflight + 1
                   /\ ret' = NoRet
  /\ held' = NONE

MetadataAccounts ==
  {[kind |-> "undefined"], [kind |-> "valueNull"]}
    \cup {[kind |-> "metadata", symbol |-> s] : s \in MetadataSymbols \cup {<<>>}}

\* lines 53-66 and 111-116: the metadata account arrives; calculateFees
\* runs up to its request for the rent-exempt minimum
createMetadataResolved ==
  /\ op = "createUranusPositionTransaction"
  /\ pc = "awaitMetadata"
  /\ \E metadataAccount \in MetadataAccounts :
       /\ inflight' = inflight - 1 +
            (IF metadataAccount.kind = "metadata" /\ metadataAccount.symbol # <<>>
             THEN 1 ELSE 0)
       /\ IF metadataAccount.kind = "undefined"
          THEN /\ pc' = "done"
               /\ ret' = Throw("Metadata account not found")
               /\ UNCHANGED <<loc, net>>
          ELSE IF metadataAccount.kind = "valueNull"
          THEN /\ pc' = "done"
               /\ ret' = Throw("Metadata account value is null")
               /\ UNCHANGED <<loc, net>>
          ELSE IF metadataAccount.symbol = <<>>
          THEN /\ pc' = "done"
               /\ ret' = Throw("Market metadata symbol not found")
               /\ UNCHANGED <<loc, net>>
          ELSE /\ pc' = "awaitRent"
               /\ loc' = [instruction |-> NONE] @@
                         [marketMetadata |-> [symbol |-> metadataAccount.symbol]]
               /\ net' = Append(net, Request("getMinimumBalanceForRentExemption",
                                             PositionAccountData_size))
               /\ UNCHANGED ret
  /\ UNCHANGED <<op, args, held>>

\* lines 130-159: the payload and the instruction
openInstruction(a, symbol, paidAmount, positionSize, positionNonce, positionPda) ==
  LET serializedData ==
        serializeInitializePositionData(
          [market_mint |-> toBytes(a.mint),
           market_symbol |-> stringToFixedArray(symbol, SYMBOL_LEN),
           paid_amount |-> paidAmount,
           position_size |-> positionSize,
           leverage |-> a.leverage,
           position_nonce |-> positionNonce,
           direction |-> directionOf(a.direction)])
  IN  [programId |-> PROGRAM_ID,
       keys |-> <<[pubkey |-> a.owner, isSigner |-> TRUE, isWritable |-> TRUE],
                  [pubkey |-> a.owner, isSigner |-> FALSE, isWritable |-> FALSE],
                  [pubkey |-> positionPda, isSigner |-> FALSE, isWritable |-> TRUE],
                  [pubkey |-> getMarketAccount(a.mint), isSigner |-> FALSE,
                   isWritable |-> TRUE],
                  [pubkey |-> DEX_PUBKEY, isSigner |-> FALSE, isWritable |-> TRUE],
                  [pubkey |-> DEX_FEES_PUBKEY, isSigner |-> FALSE, isWritable |-> TRUE],
                  [pubkey |-> SystemProgram_programId, isSigner |-> FALSE,
                   isWritable |-> FALSE]>>,
       data |-> <<0>> \o serializedData]

\* lines 98-165: the rent arrives, calculateFees returns, the amounts, the
\* nonce, the address and the instruction are computed, and the latest
\* blockhash is requested
createRentResolved ==
  /\ op = "createUranusPositionTransaction"
  /\ pc = "awaitRent"
  /\ \E rate \in LamportsPerByteYear, now \in Clock :
       LET fees == calculateFees(args.solAmount, args.leverage,
                     getMinimumBalanceForRentExemption(net[Len(net)].arg, rate))
           paidAmount == paidAmountOf(fees)
           positionSize == positionSizeOf(fees, args.leverage)
           positionNonce == now
           positionPda == openPositionPda(args.owner, positionNonce)
       IN  loc' = [marketMetadata |-> loc.marketMetadata,
                   fees |-> fees,
                   paidAmount |-> paidAmount,
                   positionSize |-> positionSize,
                   positionNonce |-> positionNonce,
                   positionPda |-> positionPda,
                   instruction |->
                     openInstruction(args, loc.marketMetadata.symbol, paidAmount,
                                     positionSize, positionNonce, positionPda)]
  /\ pc' = "awaitBlockhash"
  /\ net' = Append(net, Request("getLatestBlockhash", NULL))
  /\ UNCHANGED <<op, args, inflight, ret, held>>

\* lines 161-173.  positionNonce.toNumber() is exact below 2^53; fees and
\* totalCost are kept in lamports (the source divides by LAMPORTS_PER_SOL)
createBlockhashResolved ==
  /\ op = "createUranusPositionTransaction"
  /\ pc = "awaitBlockhash"
  /\ \E blockhash \in Blockhashes :
       ret' = [kind |-> "ok",
               transaction |-> [instructions |-> <<loc.instruction>>,
                                feePayer |-> args.owner,
                                recentBlockhash |-> blockhash],
               positionNonce |-> loc.positionNonce,
               positionPda |-> loc.positionPda,
               fees |-> add(loc.fees.percentageFee, loc.fees.accountFee),
               totalCost |-> loc.paidAmount]
  /\ pc' = "done"
  /\ inflight' = inflight - 1
  /\ UNCHANGED <<op, args, loc, net, held>>

(***************************************************************************)
(* closeUranusPosition (index.js 176-220)                                  *)
(***************************************************************************)
\* lines 177-179
closeMissing(a) ==
  \/ a.connection = NULL
  \/ isZero(a.positionNonce)
  \/ a.owner = NULL

\* lines 194-213
closeInstruction(a, positionNonceBN, positionPda) ==
  LET serializedData ==
        serializeClosePositionData(
          [close_position |-> TRUE, position_nonce |-> positionNonceBN])
  IN  [programId |-> PROGRAM_ID,
       keys |-> <<[pubkey |-> positionPda, isSigner |-> FALSE, isWritable |-> TRUE],
                  [pubkey |-> a.owner, isSigner |-> TRUE, isWritable |-> TRUE]>>,
       data |-> <<2>> \o serializedData]

\* the position addresses a caller may pass: none, or one it holds
CallerPdas ==
  {NONE} \cup {openPositionPda(o, n) : o \in Owners, n \in Clock}

\* lines 176-217
closeUranusPosition ==
  /\ pc = "idle"
  /\ \E connection \in {"connection", NULL}, positionNonce \in Clock \cup {BN(0)},
        owner \in Owners \cup {NULL}, positionPdaArg \in CallerPdas :
       LET a == [connection |-> connection, positionNonce |-> positionNonce,
                 owner |-> owner, positionPda |-> positionPdaArg]
           positionNonceBN == positionNonce
           positionPda == IF positionPdaArg = NONE
                          THEN closePositionPda(owner, positionNonceBN)
                          ELSE positionPdaArg
       IN  /\ op' = "closeUranusPosition"
           /\ args' = a
           /\ IF closeMissing(a)
              THEN /\ pc' = "done"
                   /\ ret' = Throw("Missing required parameters")
                   /\ loc' = [instruction |-> NONE]
                   /\ UNCHANGED <<net, inflight>>
              ELSE /\ pc' = "awaitBlockhash"
                   /\ loc' = [positionNonceBN |-> positionNonceBN,
                              positionPda |-> positionPda,
                              instruction |->
                                closeInstruction(a, positionNonceBN, positionPda)]
                   /\ net' = Append(net, Request("getLatestBlockhash", NULL))
                   /\ inflight' = inflight + 1
                   /\ ret' = NoRet
  /\ UNCHANGED held

\* lines 215-219
closeBlockhashResolved ==
  /\ op = "closeUranusPosition"
  /\ pc = "awaitBlockhash"
  /\ \E blockhash \in Blockhashes :
       ret' = [kind |-> "ok",
               transaction |-> [instructions |-> <<loc.instruction>>,
                                feePayer |-> args.owner,
                                recentBlockhash |-> blockhash]]
  /\ pc' = "done"
  /\ inflight' = inflight - 1
  /\ UNCHANGED <<op, args, loc, net, held>>

NextTransaction ==
  \/ createUranusPositionTransaction
  \/ createMetadataResolved
  \/ createRentResolved
  \/ createBlockhashResolved
  \/ closeUranusPosition
  \/ closeBlockhashResolved
  \/ Return

SpecTransaction == Init /\ [][NextTransaction]_vars

(***************************************************************************)
(* Properties of createUranusPositionTransaction and closeUranusPosition.  *)
(***************************************************************************)
IsCreate == op = "createUranusPositionTransaction"
IsClose == op = "closeUranusPosition"

\* the open instruction has been constructed
OpenBuilt == IsCreate /\ pc \in {"awaitBlockhash", "done"} /\ loc.instruction # NONE

\* fields of the open payload (discriminator, then InitializePositionData)
openData == loc.instruction.data
open_position_size == SubSeq(openData, 74, 81)
open_position_nonce == SubSeq(openData, 83, 90)
open_direction == openData[91]

\* floor(p * m / d) without leaving the 32-bit integers
FloorMulDiv(p, m, d) == (p \div d) * m + ((p % d) * m) \div d

\* the 8 little-endian bytes of v * l (two's complement), from integer
\* arithmetic alone
ProductBytes(v, l) ==
  LET t == (v % 65536) * l
      high == (v \div 65536) * l + (t \div 65536)
      RECURSIVE bytes(_, _)
      bytes(x, n) == IF n = 0 THEN <<>> ELSE <<x % 256>> \o bytes(x \div 256, n - 1)
  IN  bytes(t % 65536, 2) \o bytes(high, 6)

C2_LeverageValidated ==
  (IsCreate /\ args.leverage \notin 1..5) =>
    /\ loc.instruction = NONE
    /\ pc = "done" => ret.kind = "error"

\* C3: "long" in any case encodes the direction byte +1, "short" in any case
\* -1 (255 as a byte), and any other direction makes the call fail before
\* any request to the transport or the metadata collaborator.
C3_DirectionMapped ==
  IsCreate =>
    LET d == toLowerCase(args.direction)
    IN  /\ (OpenBuilt /\ d = STR_long) => open_direction = 1
        /\ (OpenBuilt /\ d = STR_short) => open_direction = 255
        /\ d \notin {STR_long, STR_short} =>
             /\ net = <<>>
             /\ pc = "done" => ret.kind = "error"

\* C7: open and close agree on the position address.  When
\* createUranusPositionTransaction returned nonce n and address p for an
\* owner (p at account index 2 of the open instruction, derived from
\* "uranus_position", the owner's bytes and the 8 little-endian bytes of n),
\* closeUranusPosition(connection, n, owner) without an address puts p first
\* among its accounts and encodes n in its payload.
C7_OpenCloseAgree ==
  /\ (IsCreate /\ pc = "done" /\ ret.kind = "ok") =>
       /\ ret.transaction.instructions[1].keys[3].pubkey = ret.positionPda
       /\ ret.positionPda.preimage =
            TextEncoder_encode(STR_uranus_position) \o toBytes(args.owner)
              \o open_position_nonce
       /\ fromBytesLE(open_position_nonce) = ret.positionNonce
  /\ (IsClose /\ pc \in {"awaitBlockhash", "done"} /\ loc.instruction # NONE
        /\ held # NONE /\ args.positionPda = NONE
        /\ args.owner = held.owner /\ args.positionNonce = held.positionNonce) =>
       /\ loc.instruction.keys[1].pubkey = held.positionPda
       /\ fromBytesLE(SubSeq(loc.instruction.data, 3, 10)) = held.positionNonce
       /\ pc = "done" =>
            ret.transaction.instructions[1].keys[1].pubkey = held.positionPda

C7_Witness ==
  /\ IsClose
  /\ pc = "done"
  /\ ret.kind = "ok"
  /\ held # NONE
  /\ args.positionPda = NONE
  /\ args.owner = held.owner
  /\ args.positionNonce = held.positionNonce
  /\ ret.transaction.instructions[1].keys[1].pubkey = held.positionPda

\* the case of C10: a principal of at least 0.01 SOL at a leverage in 1..5
AboveMinimum ==
  OpenBuilt /\ args.leverage \in 1..5 /\ ~lt(args.solAmount, BN(10000000))

NoNegativeIntermediate ==
  LET principal == toInt(args.solAmount)
      fee == toInt(loc.fees.percentageFee)
      accountRent == toInt(loc.fees.accountFee)
  IN  /\ principal - fee >= 0
      /\ principal - fee - accountRent >= 0
      /\ afterFeesOf(loc.fees) = BN(principal - fee)
      /\ afterRentOf(loc.fees) = BN(principal - fee - accountRent)
      /\ loc.positionSize.negative = 0
      /\ fromBytesLE(open_position_size) = loc.positionSize

RentFor(dataLength) ==
  {BN(getMinimumBalanceForRentExemption(dataLength, r)) : r \in LamportsPerByteYear}

\* C10 as amended: for every principal of at least 10,000,000 lamports and
\* every leverage in 1..5, with accountRent the rent-exempt minimum the
\* transport reports for the 147-byte position account
\* (PositionAccountData.size), principal - fees and principal - fees - rent
\* are not negative and the position_size field holds the computed size.
C10_NoNegativeIntermediate ==
  AboveMinimum =>
    /\ net[2].arg = 147
    /\ loc.fees.accountFee \in RentFor(147)
    /\ NoNegativeIntermediate

\* C10 as stated: the same with accountRent the minimum for a 139-byte
\* account.
C10_AsStated ==
  AboveMinimum =>
    /\ loc.fees.accountFee \in RentFor(139)
    /\ NoNegativeIntermediate

C10_Witness ==
  /\ AboveMinimum
  /\ pc = "done"
  /\ ret.kind = "ok"
  /\ args.solAmount = BN(10000000)
  /\ args.leverage = 5
  /\ loc.fees.accountFee = BN(3828000)

(***************************************************************************)
(* The query layer: deserializePositionAccount, getOpenPositions,          *)
(* getAllMarkets (index.js 222-286).                                       *)
(***************************************************************************)
\* what the program stores in a position account: PositionAccountData.schema
\* (schema.js 18-33), PositionAccountData.size bytes
serializePositionAccountData(d) ==
  d.owner \o d.market_mint \o d.market_symbol \o encodeU64(d.entry_price)
    \o encodeU64(d.liquidation_price) \o encodeU64(d.paid_amount)
    \o encodeU64(d.position_size) \o encodeU8(d.leverage) \o encodeU8(d.closed)
    \o encodeU64(d.position_nonce) \o encodeU64(d.pnl) \o encodeI8(d.direction)

\* borsh deserialize(PositionAccountData.schema, data) can read every field:
\* it throws when the buffer ends before the schema does and ignores bytes
\* after it
canDeserialize(data) == Len(data) >= PositionAccountData_size

\* lines 222-240.  Fields the source divides by LAMPORTS_PER_SOL are kept in
\* lamports.
deserializePositionAccount(data) ==
  [owner |-> SubSeq(data, 1, 32),
   market_mint |-> SubSeq(data, 33, 64),
   market_symbol |-> decodeMarketSymbol(SubSeq(data, 65, 96)),
   entry_price |-> fromBytesLE(SubSeq(data, 97, 104)),
   liquidation_price |-> fromBytesLE(SubSeq(data, 105, 112)),
   paid_amount |-> fromBytesLE(SubSeq(data, 113, 120)),
   position_size |-> fromBytesLE(SubSeq(data, 121, 128)),
   leverage |-> data[129],
   closed |-> data[130],
   position_nonce |-> fromBytesLE(SubSeq(data, 131, 138)),
   direction |-> IF data[147] = 1 THEN "LONG" ELSE "SHORT"]

\* line 247 with the length test left out
isPositionData_any(data) == TRUE

\* line 247
isPositionData(data) == Len(data) # 0

\* line 270
isMarketData(data) == Len(data) = 0

\* lines 253-262 as the three filters would combine if each applied whenever
\* its argument is supplied, the first supplied one winning
applyFilter_firstSupplied(positions, owner, marketMint, ticker) ==
  LET byOwner(pos) == pos.owner = toBytes(owner)
      byMint(pos) == pos.market_mint = toBytes(marketMint)
      byTicker(pos) == includes(toLowerCase(pos.market_symbol), toLowerCase(ticker))
  IN  IF owner # NULL THEN SelectSeq(positions, byOwner)
      ELSE IF marketMint # NULL THEN SelectSeq(positions, byMint)
      ELSE IF ticker # <<>> THEN SelectSeq(positions, byTicker)
      ELSE positions

\* lines 253-262.  A ticker that is not supplied (null or "") is <<>>.
applyFilter(positions, owner, marketMint, ticker) ==
  LET byOwner(pos) == pos.owner = toBytes(owner)
      byMint(pos) == pos.market_mint = toBytes(marketMint)
      byTicker(pos) == includes(toLowerCase(pos.market_symbol), toLowerCase(ticker))
  IN  IF owner # NULL /\ marketMint = NULL /\ ticker = <<>>
      THEN SelectSeq(positions, byOwner)
      ELSE IF owner = NULL /\ marketMint # NULL /\ ticker = <<>>
      THEN SelectSeq(positions, byMint)
      ELSE IF owner = NULL /\ marketMint = NULL /\ ticker # <<>>
      THEN SelectSeq(positions, byTicker)
      ELSE positions

\* the accounts the program owns, as connection.getProgramAccounts may
\* return them: market accounts (no data), position accounts, and accounts
\* of other lengths
MaxAccounts == 2

PositionFields(owner, mint, symbol, direction) ==
  [owner |-> toBytes(owner), market_mint |-> toBytes(mint),
   market_symbol |-> stringToFixedArray(symbol, SYMBOL_LEN),
   entry_price |-> BN(150000000), liquidation_price |-> BN(100000000),
   paid_amount |-> BN(1023858320), position_size |-> mul(BN(975141680), BN(3)),
   leverage |-> 3, closed |-> 0,
   position_nonce |-> add(mul(BN(1762387), BN(1000000)), BN(200000)),
   pnl |-> BN(0), direction |-> direction]

PositionA ==
  serializePositionAccountData(PositionFields("owner1", "mintA", <<83, 79, 76>>, 1))
PositionB ==
  serializePositionAccountData(
    PositionFields("owner2", "mintB", <<119, 83, 111, 108>>, -1))
PositionC ==
  serializePositionAccountData(PositionFields("owner1", "mintB", <<66, 84, 67>>, 1))

AccountData ==
  {<<>>, PositionA, PositionB, PositionC,
   SubSeq(PositionA, 1, 139), SubSeq(PositionB, 1, 50), PositionC \o Rep(0, 8)}

\* arrays of at most MaxAccounts accounts; the i-th has the address "account"i
ProgramAccounts ==
  UNION {[1..n -> AccountData] : n \in 0..MaxAccounts}

Tickers == {<<>>, <<83, 111, 108>>}

\* lines 242-245
getOpenPositions ==
  /\ pc = "idle"
  /\ \E owner \in {NULL, "owner1"}, marketMint \in {NULL, "mintB"},
        ticker \in Tickers :
       args' = [owner |-> owner, marketMint |-> marketMint, ticker |-> ticker]
  /\ op' = "getOpenPositions"
  /\ pc' = "awaitProgramAccounts"
  /\ loc' = <<>>
  /\ net' = Append(net, Request("getProgramAccounts", PROGRAM_ID))
  /\ inflight' = inflight + 1
  /\ ret' = NoRet
  /\ UNCHANGED held

\* lines 247-262
getOpenPositionsResolved ==
  /\ op = "getOpenPositions"
  /\ pc = "awaitProgramAccounts"
  /\ \E accounts \in ProgramAccounts :
       LET validAccounts == SelectSeq(accounts, isPositionData)
           deserializedAccounts ==
             [i \in 1..Len(validAccounts) |->
                deserializePositionAccount(validAccounts[i])]
       IN  /\ loc' = [accounts |-> accounts]
           /\ IF \E i \in 1..Len(validAccounts) : ~canDeserialize(validAccounts[i])
              THEN ret' = Throw("Error in schema, the buffer is smaller than expected")
              ELSE ret' = [kind |-> "ok",
                           positions |->
                             applyFilter(deserializedAccounts, args.owner,
                                         args.marketMint, args.ticker)]
  /\ pc' = "done"
  /\ inflight' = inflight - 1
  /\ UNCHANGED <<op, args, net, held>>

\* lines 265-268
getAllMarkets ==
  /\ pc = "idle"
  /\ op' = "getAllMarkets"
  /\ args' = <<>>
  /\ pc' = "awaitProgramAccounts"
  /\ loc' = <<>>
  /\ net' = Append(net, Request("getProgramAccounts", PROGRAM_ID))
  /\ inflight' = inflight + 1
  /\ ret' = NoRet
  /\ UNCHANGED held

\* a promise not yet resolved
PENDING == [pending |-> TRUE]

AccountAddress(i) == <<"account", i>>

\* lines 282-285 (liquidity is kept in lamports)
marketsOf(validAccounts, lamports) ==
  [i \in 1..Len(validAccounts) |->
     [market_account |-> validAccounts[i],
      liquidity |-> IF lamports[i] = NONE THEN 0 ELSE lamports[i].lamports]]

\* the addresses of the accounts that pass the filter of line 270, in order
RECURSIVE marketAccounts(_, _)
marketAccounts(accounts, i) ==
  IF i > Len(accounts) THEN <<>>
  ELSE (IF isMarketData(accounts[i]) THEN <<AccountAddress(i)>> ELSE <<>>)
         \o marketAccounts(accounts, i + 1)

\* lines 270-277: the accounts arrive and one getAccountInfo per market
\* account is issued, all before any of them resolves (Promise.all)
getAllMarketsResolved ==
  /\ op = "getAllMarkets"
  /\ pc = "awaitProgramAccounts"
  /\ \E accounts \in ProgramAccounts :
       LET validAccounts == marketAccounts(accounts, 1)
       IN  /\ loc' = [accounts |-> accounts, validAccounts |-> validAccounts,
                      lamports |-> [i \in 1..Len(validAccounts) |-> PENDING]]
           /\ net' = net \o [i \in 1..Len(validAccounts) |->
                               Request("getAccountInfo", validAccounts[i])]
           /\ inflight' = inflight - 1 + Len(validAccounts)
           /\ IF validAccounts = <<>>
              THEN /\ pc' = "done"
                   /\ ret' = [kind |-> "ok", markets |-> <<>>]
              ELSE /\ pc' = "awaitAccountInfos"
                   /\ UNCHANGED ret
  /\ UNCHANGED <<op, args, held>>

\* what getAccountInfo resolves to: null, or the account with its lamports
AccountInfos == {NONE, [lamports |-> 890880]}

\* lines 273-285: one of the outstanding getAccountInfo requests resolves;
\* when the last has, the markets are returned
getAllMarketsInfoResolved ==
  /\ op = "getAllMarkets"
  /\ pc = "awaitAccountInfos"
  /\ \E idx \in 1..Len(loc.lamports), accountInfo \in AccountInfos :
       /\ loc.lamports[idx] = PENDING
       /\ LET lamports == [loc.lamports EXCEPT ![idx] = accountInfo]
          IN  /\ loc' = [loc EXCEPT !.lamports = lamports]
              /\ IF \A i \in 1..Len(lamports) : lamports[i] # PENDING
                 THEN /\ pc' = "done"
                      /\ ret' = [kind |-> "ok",
                                 markets |-> marketsOf(loc.validAccounts, lamports)]
                 ELSE UNCHANGED <<pc, ret>>
  /\ inflight' = inflight - 1
  /\ UNCHANGED <<op, args, net, held>>

NextQuery ==
  \/ getOpenPositions
  \/ getOpenPositionsResolved
  \/ getAllMarkets
  \/ getAllMarketsResolved
  \/ getAllMarketsInfoResolved
  \/ Return

SpecQuery == Init /\ [][NextQuery]_vars

(***************************************************************************)
(* Properties of the query layer.                                          *)
(***************************************************************************)
OpenPositionsDone == op = "getOpenPositions" /\ pc = "done"
AllMarketsDone == op = "getAllMarkets" /\ pc = "done"

NonEmpty(data) == Len(data) # 0

\* the accounts of the response that carry data, in order
candidates == SelectSeq(loc.accounts, NonEmpty)

NoFilter == args.owner = NULL /\ args.marketMint = NULL /\ args.ticker = <<>>

\* the addresses of the accounts of the response whose data has a length in
\* lengths, in order
RECURSIVE addressesWithLength(_, _)
addressesWithLength(lengths, i) ==
  IF i > Len(loc.accounts) THEN <<>>
  ELSE (IF Len(loc.accounts[i]) \in lengths THEN <<AccountAddress(i)>> ELSE <<>>)
         \o addressesWithLength(lengths, i + 1)

returnedMarkets == [i \in 1..Len(ret.markets) |-> ret.markets[i].market_account]

\* C5 as amended: an account with a 0-length payload appears in
\* getAllMarkets and is never handed to the position decoder; every account
\* with a non-empty payload is treated as a position by getOpenPositions and
\* never returned by getAllMarkets: with at least 147 bytes
\* (PositionAccountData.size) it is decoded from its first 147 bytes and,
\* when no filter is given, returned; with fewer bytes (139 included) it makes
\* the call fail.
C5_Classification ==
  /\ AllMarketsDone =>
       /\ ret.kind = "ok"
       /\ returnedMarkets = addressesWithLength({0}, 1)
  /\ OpenPositionsDone =>
       IF \E i \in 1..Len(candidates) : Len(candidates[i]) < 147
       THEN ret.kind = "error"
       ELSE /\ ret.kind = "ok"
            /\ Len(ret.positions) <= Len(candidates)
            /\ NoFilter =>
                 /\ Len(ret.positions) = Len(candidates)
                 /\ \A i \in 1..Len(candidates) :
                      /\ ret.positions[i].owner = SubSeq(candidates[i], 1, 32)
                      /\ ret.positions[i].market_mint = SubSeq(candidates[i], 33, 64)
                      /\ ret.positions[i].direction =
                           (IF candidates[i][147] = 1 THEN "LONG" ELSE "SHORT")

\* C5 as stated: 0-length accounts are markets only, accounts of exactly 139
\* bytes are decoded and returned as positions and never as markets, and
\* accounts of any other length are excluded from both paths without making
\* either call fail.
C5_AsStated ==
  /\ AllMarketsDone =>
       /\ ret.kind = "ok"
       /\ returnedMarkets = addressesWithLength({0}, 1)
  /\ OpenPositionsDone =>
       /\ ret.kind = "ok"
       /\ NoFilter => Len(ret.positions) = Len(addressesWithLength({139}, 1))

C5_Witness ==
  /\ OpenPositionsDone
  /\ NoFilter
  /\ loc.accounts = <<<<>>, PositionC \o Rep(0, 8)>>
  /\ ret.kind = "ok"
  /\ Len(ret.positions) = 1
  /\ ret.positions[1].market_symbol = <<66, 84, 67>>

OwnerMatches(pos) == pos.owner = toBytes(args.owner)
MintMatches(pos) == pos.market_mint = toBytes(args.marketMint)
TickerMatches(pos) ==
  \E k \in 0..(Len(pos.market_symbol) - Len(args.ticker)) :
    \A j \in 1..Len(args.ticker) :
      lowerCodePoint(pos.market_symbol[k + j]) = lowerCodePoint(args.ticker[j])

decodedCandidates ==
  [i \in 1..Len(candidates) |-> deserializePositionAccount(candidates[i])]

Supplied ==
  (IF args.owner # NULL THEN {"owner"} ELSE {})
    \cup (IF args.marketMint # NULL THEN {"marketMint"} ELSE {})
    \cup (IF args.ticker # <<>> THEN {"ticker"} ELSE {})

FilteredBy(f) ==
  CASE f = "owner" -> SelectSeq(decodedCandidates, OwnerMatches)
    [] f = "marketMint" -> SelectSeq(decodedCandidates, MintMatches)
    [] f = "ticker" -> SelectSeq(decodedCandidates, TickerMatches)

\* C6 as amended: when exactly one of owner, marketMint, ticker is supplied
\* the result is the decoded positions matching it (owner equality, mint
\* equality, or case-insensitive symbol substring); when two or more are
\* supplied none of them is applied and every decoded position is returned.
C6_OneFilterOrNone ==
  (OpenPositionsDone /\ ret.kind = "ok") =>
    /\ \A f \in Supplied : Cardinality(Supplied) = 1 => ret.positions = FilteredBy(f)
    /\ Cardinality(Supplied) # 1 => ret.positions = decodedCandidates

\* C6 as stated: when two or more are supplied, exactly one of them is still
\* applied.
C6_AsStated ==
  (OpenPositionsDone /\ ret.kind = "ok") =>
    /\ \A f \in Supplied : Cardinality(Supplied) = 1 => ret.positions = FilteredBy(f)
    /\ Cardinality(Supplied) >= 2 => \E f \in Supplied : ret.positions = FilteredBy(f)

C6_Witness ==
  /\ OpenPositionsDone
  /\ ret.kind = "ok"
  /\ Supplied = {"owner", "marketMint"}
  /\ loc.accounts = <<PositionA, PositionB>>
  /\ Len(ret.positions) = 2
  /\ Len(FilteredBy("owner")) = 1
  /\ Len(FilteredBy("marketMint")) = 1

(***************************************************************************)
(* The market symbol's way through the fixed 32-byte buffer:               *)
(* stringToFixedArray as createUranusPositionTransaction applies it to     *)
(* marketMetadata.symbol (line 134), and the decode of line 228 applied to *)
(* the buffer the program stored.                                          *)
(***************************************************************************)
MaxRun == 32
MaxTail == 1

\* NUL, "A", e-acute (2 bytes), the euro sign (3 bytes), an emoji (4 bytes)
\* and U+FEFF
Alphabet == {0, 65, 233, 8364, 128512, 65279}

Symbols ==
  {Rep(c, n) \o Rep(d, k) : c \in Alphabet, d \in Alphabet,
                            n \in 0..MaxRun, k \in 0..MaxTail}

\* line 134
encodeMarketSymbol ==
  /\ pc = "idle"
  /\ \E str \in Symbols :
       /\ args' = [str |-> str]
       /\ loc' = [market_symbol |-> stringToFixedArray(str, SYMBOL_LEN)]
  /\ op' = "market_symbol"
  /\ pc' = "encoded"
  /\ ret' = NoRet
  /\ UNCHANGED <<net, inflight, held>>

\* line 228
decodeStoredSymbol ==
  /\ op = "market_symbol"
  /\ pc = "encoded"
  /\ ret' = [kind |-> "ok", market_symbol |-> decodeMarketSymbol(loc.market_symbol)]
  /\ pc' = "done"
  /\ UNCHANGED <<op, args, loc, net, inflight, held>>

NextCodec ==
  \/ encodeMarketSymbol
  \/ decodeStoredSymbol
  \/ Return

SpecCodec == Init /\ [][NextCodec]_vars

\* the number of bytes of the UTF-8 encoding of a code point
Utf8Width(c) == IF c < 128 THEN 1 ELSE IF c < 2048 THEN 2 ELSE IF c < 65536 THEN 3 ELSE 4

RECURSIVE Utf8Length(_)
Utf8Length(str) ==
  IF str = <<>> THEN 0 ELSE Utf8Width(Head(str)) + Utf8Length(Tail(str))

SymbolEncoded == op = "market_symbol" /\ pc \in {"encoded", "done"}

\* the buffer is 32 bytes, zero after the copied bytes, its last byte zero
BufferPadded ==
  /\ Len(loc.market_symbol) = 32
  /\ loc.market_symbol[32] = 0
  /\ \A i \in 1..32 : i > Utf8Length(args.str) => loc.market_symbol[i] = 0

\* what a symbol comes back as: one leading U+FEFF dropped, then every NUL
\* character dropped
IsNonZero(c) == c # 0

Survivor(str) ==
  SelectSeq(IF str # <<>> /\ Head(str) = 65279 THEN Tail(str) ELSE str, IsNonZero)

\* C9 as amended: for every symbol whose UTF-8 encoding is at most 31 bytes,
\* encoding it into the 32-byte buffer (zero-padded, last byte always zero)
\* and decoding that buffer returns the symbol without one leading U+FEFF and
\* without its NUL characters; so it returns exactly the original symbol when
\* the symbol contains no NUL character and does not begin with U+FEFF (the
\* empty symbol, a 31-byte symbol and a symbol of non-ASCII sequences
\* included).
C9_SymbolRoundTrip ==
  SymbolEncoded =>
    /\ BufferPadded
    /\ (pc = "done" /\ Utf8Length(args.str) <= 31) =>
         /\ ret.market_symbol = Survivor(args.str)
         /\ ((\A i \in 1..Len(args.str) : args.str[i] # 0)
               /\ (args.str = <<>> \/ args.str[1] # 65279)) =>
              ret.market_symbol = args.str

\* C9 as stated: the same for every symbol whose UTF-8 encoding is at most
\* 31 bytes.
C9_AsStated ==
  SymbolEncoded =>
    /\ BufferPadded
    /\ (pc = "done" /\ Utf8Length(args.str) <= 31) => ret.market_symbol = args.str

C9_Witness ==
  /\ SymbolEncoded
  /\ pc = "done"
  /\ args.str = Rep(8364, 9) \o <<128512>>
  /\ Utf8Length(args.str) = 31
  /\ loc.market_symbol[31] # 0
  /\ ret.market_symbol = args.str

(***************************************************************************)
(* getAllSignaturesForMarket (index.js 288-331)                            *)
(***************************************************************************)
\* options.limit of line 303, the page length tested on line 323
limit == 100

MaxFetches == 3

\* the second the clock values of Clock fall in
NowSeconds == 1762387200

\* Math.floor(Date.now() / 1000), line 298
nowOf(dateNow) == toInt(div(dateNow, BN(1000)))

\* the default of the parameter maxTimeSpan, line 288; <<>> is an argument
\* left out
maxTimeSpanOf(a) == IF a.maxTimeSpan = <<>> THEN 24 ELSE a.maxTimeSpan[1]

\* lines 299-300
cutoffTimeOf(now, maxTimeSpan) == now - maxTimeSpan * 60 * 60

\* the number the comparison of line 315 converts a blockTime to; <<>> is null
ToNumber(blockTime) == IF blockTime = <<>> THEN 0 ELSE blockTime[1]

\* line 315 with > in place of >=
withinWindow_strict(sig, cutoffTime) == ToNumber(sig.blockTime) > cutoffTime

\* line 315
withinWindow(sig, cutoffTime) == ToNumber(sig.blockTime) >= cutoffTime

\* lines 313-321: the loop leaves at the first entry outside the window; the
\* entries ahead of it are pushed, and reachedCutoff tells whether there is one
scanPage(signatures, cutoffTime) ==
  LET outside == {i \in 1..Len(signatures) : ~withinWindow(signatures[i], cutoffTime)}
      reachedCutoff == outside # {}
      last == IF reachedCutoff
              THEN (CHOOSE i \in outside : \A j \in outside : i <= j) - 1
              ELSE Len(signatures)
  IN  [pushed |-> SubSeq(signatures, 1, last), reachedCutoff |-> reachedCutoff]

\* lines 303-306
optionsOf(before) ==
  IF before = NONE THEN [limit |-> limit] ELSE [limit |-> limit, before |-> before]

\* What the transport serves.  An entry is one second inside the window
\* ("in"), on its first second ("edge"), one second too old ("old"), or has
\* no block time ("null"); a page is given by its runs of such entries.
PageShapes ==
  {<<>>,
   <<<<"in", 1>>>>,
   <<<<"in", limit - 1>>>>,
   <<<<"in", limit>>>>,
   <<<<"in", limit - 1>>, <<"edge", 1>>>>,
   <<<<"in", limit - 2>>, <<"edge", 1>>, <<"old", 1>>>>,
   <<<<"edge", 1>>, <<"old", limit - 1>>>>,
   <<<<"old", limit>>>>,
   <<<<"old", 1>>>>,
   <<<<"in", 1>>, <<"old", 1>>>>,
   <<<<"in", 50>>, <<"old", 50>>>>,
   <<<<"in", 1>>, <<"old", 1>>, <<"in", limit - 2>>>>,
   <<<<"null", 1>>, <<"in", limit - 2>>, <<"old", 1>>>>,
   <<<<"in", limit - 1>>, <<"null", 1>>>>}

windowStart(a) == NowSeconds - maxTimeSpanOf(a) * 3600

blockTimeOf(kind, start) ==
  CASE kind = "in" -> <<start + 1>>
    [] kind = "edge" -> <<start>>
    [] kind = "old" -> <<start - 1>>
    [] kind = "null" -> <<>>

RECURSIVE kindsOf(_)
kindsOf(shape) ==
  IF shape = <<>> THEN <<>>
  ELSE Rep(Head(shape)[1], Head(shape)[2]) \o kindsOf(Tail(shape))

\* the page of the given shape served as the n-th response
pageOf(shape, n, start) ==
  LET kinds == kindsOf(shape)
  IN  [i \in 1..Len(kinds) |->
         [signature |-> [page |-> n, index |-> i],
          blockTime |-> blockTimeOf(kinds[i], start)]]

\* lines 288-311: up to the first getSignaturesForAddress
getAllSignaturesForMarket ==
  /\ pc = "idle"
  /\ \E marketMint \in Mints, span \in {<<>>, <<1>>}, isPDA \in BOOLEAN,
        dateNow \in Clock :
       LET a == [marketMint |-> marketMint, maxTimeSpan |-> span,
                 marketMintIsPDA |-> isPDA]
           marketAccount == IF ~isPDA THEN getMarketAccount(marketMint)
                            ELSE marketMint
           now == nowOf(dateNow)
       IN  /\ args' = a
           /\ loc' = [marketAccount |-> marketAccount, allSignatures |-> <<>>,
                      before |-> NONE, now |-> now,
                      cutoffTime |-> cutoffTimeOf(now, maxTimeSpanOf(a))]
           /\ net' = <<Request("getSignaturesForAddress",
                               [address |-> marketAccount,
                                options |-> optionsOf(NONE)])>>
  /\ op' = "getAllSignaturesForMarket"
  /\ pc' = "awaitSignatures"
  /\ inflight' = inflight + 1
  /\ ret' = NoRet
  /\ UNCHANGED held

\* lines 313-330: a page arrives; the loop breaks and the function returns,
\* or the next page is asked for
getSignaturesResolved ==
  /\ op = "getAllSignaturesForMarket"
  /\ pc = "awaitSignatures"
  /\ \E shape \in PageShapes :
       LET signatures == pageOf(shape, Len(net), windowStart(args))
           scan == scanPage(signatures, loc.cutoffTime)
           allSignatures == loc.allSignatures \o scan.pushed
           served == [net EXCEPT ![Len(net)] =
                        [method |-> @.method, arg |-> @.arg,
                         response |-> signatures]]
       IN  IF scan.reachedCutoff \/ Len(signatures) < limit
           THEN /\ loc' = [loc EXCEPT !.allSignatures = allSignatures]
                /\ net' = served
                /\ inflight' = inflight - 1
                /\ pc' = "done"
                /\ ret' = [kind |-> "ok", signatures |-> allSignatures]
           ELSE /\ Len(net) < MaxFetches
                /\ LET before == signatures[Len(signatures)].signature
                   IN  /\ loc' = [loc EXCEPT !.allSignatures = allSignatures,
                                             !.before = before]
                       /\ net' = Append(served,
                                   Request("getSignaturesForAddress",
                                           [address |-> loc.marketAccount,
                                            options |-> optionsOf(before)]))
                /\ inflight' = inflight
                /\ UNCHANGED <<pc, ret>>
  /\ UNCHANGED <<op, args, held>>

NextSignatures ==
  \/ getAllSignaturesForMarket
  \/ getSignaturesResolved
  \/ Return

SpecSignatures == Init /\ [][NextSignatures]_vars

SignaturesCall == op = "getAllSignaturesForMarket"

\* the n-th page served
servedPage(n) == net[n].response

\* an entry with a block time at or after now - windowHours
AtOrAfterCutoff(e) == e.blockTime # <<>> /\ e.blockTime[1] >= windowStart(args)

\* an entry with a block time before now - windowHours
BeforeCutoff(e) == e.blockTime # <<>> /\ e.blockTime[1] < windowStart(args)

HasBeforeCutoff(page) == \E i \in 1..Len(page) : BeforeCutoff(page[i])

HasStop(page) == \E i \in 1..Len(page) : ~AtOrAfterCutoff(page[i])

IsFull(page) == Len(page) = 100

\* s is the longest run of entries at or after the cutoff that t starts with
LongestRunAtOrAfter(s, t) ==
  /\ Len(s) <= Len(t)
  /\ \A i \in 1..Len(s) : s[i] = t[i] /\ AtOrAfterCutoff(s[i])
  /\ Len(s) < Len(t) => ~AtOrAfterCutoff(t[Len(s) + 1])

\* no entry at or after the cutoff comes behind one that is not
NewestFirst(page) ==
  \A i \in 1..Len(page) : \A j \in 1..Len(page) :
    (i < j /\ AtOrAfterCutoff(page[j])) => AtOrAfterCutoff(page[i])

RECURSIVE pagesUpTo(_)
pagesUpTo(n) == IF n = 0 THEN <<>> ELSE pagesUpTo(n - 1) \o servedPage(n)

\* C4 as amended: every request asks for 100 entries, the first without a
\* cursor and each later one before the last signature of the page ahead of
\* it; a further page is asked for only after a full page of entries at or
\* after the cutoff; and for every k >= 1, if page k is the first page with an
\* entry whose blockTime is not at or after the cutoff (older, or null) and
\* pages 1..k-1 are full, exactly k pages are fetched and the result is every
\* entry of pages 1..k-1 followed by the entries of page k ahead of the first
\* such entry: exactly the entries of pages 1..k at or after the cutoff when
\* page k is served newest first.
C4_Pagination ==
  SignaturesCall =>
    /\ \A n \in 1..Len(net) :
         /\ net[n].arg.options.limit = 100
         /\ net[n].arg.address = loc.marketAccount
         /\ IF n = 1 THEN DOMAIN net[n].arg.options = {"limit"}
            ELSE net[n].arg.options.before =
                   servedPage(n - 1)[Len(servedPage(n - 1))].signature
    /\ \A n \in 1..(Len(net) - 1) :
         IsFull(servedPage(n)) /\ ~HasStop(servedPage(n))
    /\ pc = "done" =>
         /\ HasStop(servedPage(Len(net))) \/ ~IsFull(servedPage(Len(net)))
         /\ \A k \in 1..Len(net) :
              (/\ HasStop(servedPage(k))
               /\ \A j \in 1..(k - 1) :
                    IsFull(servedPage(j)) /\ ~HasStop(servedPage(j))) =>
                /\ Len(net) = k
                /\ Len(ret.signatures) >= 100 * (k - 1)
                /\ LongestRunAtOrAfter(ret.signatures, pagesUpTo(k))
                /\ NewestFirst(servedPage(k)) =>
                     ret.signatures = SelectSeq(pagesUpTo(k), AtOrAfterCutoff)

\* C4 as stated: for every k >= 1, if page k is the first page with an entry
\* whose blockTime is before the cutoff and pages 1..k-1 are full, exactly k
\* pages are fetched and the result is exactly the entries of pages 1..k
\* whose blockTime is at or after the cutoff.
C4_AsStated ==
  (SignaturesCall /\ pc = "done") =>
    \A k \in 1..Len(net) :
      (/\ HasBeforeCutoff(servedPage(k))
       /\ \A j \in 1..(k - 1) :
            IsFull(servedPage(j)) /\ ~HasBeforeCutoff(servedPage(j))) =>
        /\ Len(net) = k
        /\ ret.signatures = SelectSeq(pagesUpTo(k), AtOrAfterCutoff)

C4_Witness ==
  /\ SignaturesCall
  /\ pc = "done"
  /\ Len(net) = 3
  /\ IsFull(servedPage(1)) /\ IsFull(servedPage(2)) /\ IsFull(servedPage(3))
  /\ ~HasBeforeCutoff(servedPage(1)) /\ ~HasBeforeCutoff(servedPage(2))
  /\ BeforeCutoff(servedPage(3)[100])
  /\ servedPage(3)[99].blockTime = <<windowStart(args)>>
  /\ Len(ret.signatures) = 299

(***************************************************************************)
(* getParsedTransactionsForMarket (index.js 333-353)                       *)
(***************************************************************************)
\* line 334
BATCH_SIZE == 50

MaxFullBatches == 2

\* the signature lists handed in: whole batches, one more, one less
SignatureCounts ==
  {b * BATCH_SIZE + r : b \in 0..MaxFullBatches, r \in {0, 1, BATCH_SIZE - 1}}

signatureList(n) == [i \in 1..n |-> [signature |-> [page |-> 1, index |-> i]]]

\* signatures.slice(i, i + BATCH_SIZE) with a window one entry too wide
sliceBatch_overlapping(signatures, i) ==
  SubSeq(signatures, i + 1, Min(i + BATCH_SIZE + 1, Len(signatures)))

\* signatures.slice(i, i + BATCH_SIZE), line 337
sliceBatch(signatures, i) ==
  SubSeq(signatures, i + 1, Min(i + BATCH_SIZE, Len(signatures)))

\* batch.map((sig) => sig.signature), line 339
signaturesOf(batch) == [j \in 1..Len(batch) |-> batch[j].signature]

\* What getParsedTransactions resolves to, entry by entry: a transaction of
\* the protocol's program, one of another program, null, or a record without
\* its transaction.
parsedTransaction(kind, signature) ==
  CASE kind = "ours" ->
         [transaction |-> [signatures |-> <<signature>>,
            message |-> [instructions |-> <<[programId |-> SystemProgram_programId],
                                            [programId |-> PROGRAM_ID]>>]]]
    [] kind = "foreign" ->
         [transaction |-> [signatures |-> <<signature>>,
            message |-> [instructions |-> <<[programId |-> SystemProgram_programId]>>]]]
    [] kind = "bare" -> [slot |-> 1]
    [] kind = "null" -> NONE

ResponsePatterns == {"ours", "foreign", "null", "mixed"}

kindAt(pattern, j) ==
  IF pattern # "mixed" THEN pattern
  ELSE CASE j % 4 = 1 -> "ours" [] j % 4 = 2 -> "foreign"
         [] j % 4 = 3 -> "null" [] OTHER -> "bare"

transactionsFor(pattern, requested) ==
  [j \in 1..Len(requested) |-> parsedTransaction(kindAt(pattern, j), requested[j])]

\* lines 345-350
isRelevant(tx) ==
  IF tx = NONE \/ "transaction" \notin DOMAIN tx THEN FALSE
  ELSE \E n \in 1..Len(tx.transaction.message.instructions) :
         tx.transaction.message.instructions[n].programId = PROGRAM_ID

\* lines 334-341: up to the first getParsedTransactions; with no signature
\* the loop body never runs and lines 345-352 follow at once
getParsedTransactionsForMarket ==
  /\ pc = "idle"
  /\ \E n \in SignatureCounts :
       LET signatures == signatureList(n)
       IN  /\ args' = [signatures |-> signatures]
           /\ loc' = [i |-> 0, allTransactions |-> <<>>]
           /\ IF 0 < Len(signatures)
              THEN /\ net' = <<Request("getParsedTransactions",
                                       signaturesOf(sliceBatch(signatures, 0)))>>
                   /\ inflight' = inflight + 1
                   /\ pc' = "awaitTransactions"
                   /\ ret' = NoRet
              ELSE /\ net' = <<>>
                   /\ inflight' = inflight
                   /\ pc' = "done"
                   /\ ret' = [kind |-> "ok", transactions |-> <<>>]
  /\ op' = "getParsedTransactionsForMarket"
  /\ UNCHANGED held

\* lines 336-352: a batch arrives; the next one is asked for, or the
\* transactions are filtered and returned
getParsedTransactionsResolved ==
  /\ op = "getParsedTransactionsForMarket"
  /\ pc = "awaitTransactions"
  /\ \E pattern \in ResponsePatterns :
       LET transactions == transactionsFor(pattern, net[Len(net)].arg)
           allTransactions == loc.allTransactions \o transactions
           i == loc.i + BATCH_SIZE
           served == [net EXCEPT ![Len(net)] =
                        [method |-> @.method, arg |-> @.arg,
                         response |-> transactions]]
       IN  /\ loc' = [i |-> i, allTransactions |-> allTransactions]
           /\ IF i < Len(args.signatures)
              THEN /\ net' = Append(served,
                               Request("getParsedTransactions",
                                       signaturesOf(sliceBatch(args.signatures, i))))
                   /\ inflight' = inflight
                   /\ UNCHANGED <<pc, ret>>
              ELSE /\ net' = served
                   /\ inflight' = inflight - 1
                   /\ pc' = "done"
                   /\ ret' = [kind |-> "ok",
                              transactions |-> SelectSeq(allTransactions, isRelevant)]
  /\ UNCHANGED <<op, args, held>>

NextParsed ==
  \/ getParsedTransactionsForMarket
  \/ getParsedTransactionsResolved
  \/ Return

SpecParsed == Init /\ [][NextParsed]_vars

ParsedCall == op = "getParsedTransactionsForMarket"

\* the signatures asked for so far, batch after batch
requestedSoFar == Flatten([n \in 1..Len(net) |-> net[n].arg])

IsResolved(request) == "response" \in DOMAIN request

\* C8: the signatures are fetched in consecutive batches of at most 50 (all
\* but the last of exactly 50), each signature in exactly one batch and in
\* input order, and batch N+1 is issued only when batch N has resolved: at
\* most one batch request is in flight at any time.
C8_SequentialBatches ==
  ParsedCall =>
    /\ inflight <= 1
    /\ inflight = Cardinality({n \in 1..Len(net) : ~IsResolved(net[n])})
    /\ \A n \in 1..Len(net) :
         /\ Len(net[n].arg) \in 1..50
         /\ n < Len(net) => (Len(net[n].arg) = 50 /\ IsResolved(net[n]))
    /\ Len(requestedSoFar) <= Len(args.signatures)
    /\ \A j \in 1..Len(requestedSoFar) :
         requestedSoFar[j] = args.signatures[j].signature
    /\ pc = "awaitTransactions" => ~IsResolved(net[Len(net)])
    /\ pc = "done" =>
         /\ inflight = 0
         /\ Len(requestedSoFar) = Len(args.signatures)
         /\ Len(net) = (Len(args.signatures) + 49) \div 50

C8_Witness ==
  /\ ParsedCall
  /\ pc = "awaitTransactions"
  /\ Len(args.signatures) = 101
  /\ Len(net) = 3
  /\ IsResolved(net[1]) /\ IsResolved(net[2]) /\ ~IsResolved(net[3])
  /\ net[3].arg = <<args.signatures[101].signature>>
  /\ inflight = 1

(***************************************************************************)
(* getOpenOrders and getOrdersSOLVolume (index.js 362-387)                 *)
(***************************************************************************)
MaxTxns == 3

\* "Position initialized", line 367
STR_Position_initialized ==
  <<80, 111, 115, 105, 116, 105, 111, 110, 32, 105, 110, 105, 116, 105, 97, 108, 105, 122, 101, 100>>

\* "Program log: "
STR_Program_log ==
  <<80, 114, 111, 103, 114, 97, 109, 32, 108, 111, 103, 58, 32>>

\* "position initialized"
STR_position_initialized_lower ==
  <<112, 111, 115, 105, 116, 105, 111, 110, 32, 105, 110, 105, 116, 105, 97, 108, 105, 122, 101, 100>>

\* "Position closed"
STR_Position_closed ==
  <<80, 111, 115, 105, 116, 105, 111, 110, 32, 99, 108, 111, 115, 101, 100>>

\* the log lines a transaction can carry
LogOpened == STR_Program_log \o STR_Position_initialized
LogOpenedTwice == LogOpened \o STR_Position_initialized
LogLower == STR_Program_log \o STR_position_initialized_lower
LogClosed == STR_Program_log \o STR_Position_closed

\* meta.logMessages of the transactions handed in: no line, one opening, an
\* opening among other lines, two openings in two lines, two in one line, none
LogMessages ==
  {<<>>,
   <<LogOpened>>,
   <<LogClosed, LogOpened, LogLower>>,
   <<LogOpened, LogClosed, LogOpened>>,
   <<LogOpenedTwice>>,
   <<LogLower, LogClosed>>}

\* the transaction at place n of the list handed in
parsedOrder(n, logMessages) ==
  [transaction |-> [signatures |-> <<[page |-> 1, index |-> n]>>],
   meta |-> [logMessages |-> logMessages,
             preBalances |-> <<50000000 * n, 1000000>>,
             postBalances |-> <<50000000 * n - 10000000, 1000000 + 9995000>>]]

TxnLists ==
  UNION {{[n \in 1..k |-> parsedOrder(n, f[n])] : f \in [1..k -> LogMessages]} :
           k \in 0..MaxTxns}

\* lines 366-370 for one transaction: one push for every matching line
pushesFor(txn) ==
  LET logs == txn.meta.logMessages
      matching == SelectSeq(logs, LAMBDA log : includes(log, STR_Position_initialized))
  IN  [j \in 1..Len(matching) |-> txn]

\* lines 362-373
openOrdersOf(txns) == Flatten([n \in 1..Len(txns) |-> pushesFor(txns[n])])

abs(x) == IF x < 0 THEN -x ELSE x

\* lines 381-384 for one order
RECURSIVE balanceChanges(_, _)
balanceChanges(order, i) ==
  IF i > Len(order.meta.preBalances) THEN 0
  ELSE abs(order.meta.preBalances[i] - order.meta.postBalances[i])
         + balanceChanges(order, i + 1)

\* lines 375-386: totalVolume, kept in lamports
RECURSIVE totalVolumeOf(_)
totalVolumeOf(orders) ==
  IF orders = <<>> THEN 0
  ELSE balanceChanges(Head(orders), 1) + totalVolumeOf(Tail(orders))

\* lines 362-373
getOpenOrders ==
  /\ pc = "idle"
  /\ \E txns \in TxnLists :
       /\ args' = [txns |-> txns]
       /\ loc' = [openOrders |-> openOrdersOf(txns)]
  /\ op' = "getOpenOrders"
  /\ pc' = "orders"
  /\ ret' = NoRet
  /\ UNCHANGED <<net, inflight, held>>

\* lines 375-387, called with what getOpenOrders returned
getOrdersSOLVolume ==
  /\ op = "getOpenOrders"
  /\ pc = "orders"
  /\ ret' = [kind |-> "ok", orders |-> loc.openOrders,
             totalVolume |-> totalVolumeOf(loc.openOrders)]
  /\ pc' = "done"
  /\ UNCHANGED <<op, args, loc, net, inflight, held>>

NextOrders ==
  \/ getOpenOrders
  \/ getOrdersSOLVolume
  \/ Return

SpecOrders == Init /\ [][NextOrders]_vars

OrdersReturned == op = "getOpenOrders" /\ pc \in {"orders", "done"}

\* a transaction with at least one log line containing "Position initialized"
IsOpening(txn) ==
  \E j \in 1..Len(txn.meta.logMessages) :
    includes(txn.meta.logMessages[j], STR_Position_initialized)

\* the balance movement of one transaction
Movement(txn) ==
  LET pre == txn.meta.preBalances
      post == txn.meta.postBalances
      RECURSIVE sum(_)
      sum(i) == IF i = 0 THEN 0 ELSE abs(pre[i] - post[i]) + sum(i - 1)
  IN  sum(Len(pre))

RECURSIVE MovementOnce(_)
MovementOnce(txns) ==
  IF txns = <<>> THEN 0
  ELSE (IF IsOpening(Head(txns)) THEN Movement(Head(txns)) ELSE 0)
         + MovementOnce(Tail(txns))

\* C11: getOpenOrders returns exactly the transactions with at least one log
\* line containing "Position initialized", in input order and each at most
\* once, also when a transaction has several matching lines, and
\* getOrdersSOLVolume counts each order's balance movement once.
C11_EachOrderOnce ==
  OrdersReturned =>
    /\ loc.openOrders = SelectSeq(args.txns, IsOpening)
    /\ \A i \in 1..Len(loc.openOrders) : \A j \in 1..Len(loc.openOrders) :
         loc.openOrders[i] = loc.openOrders[j] => i = j
    /\ pc = "done" => ret.totalVolume = MovementOnce(args.txns)
=============================================================================
